---- MODULE Spec2Model ----
(***************************************************************************)
(* The meme leaderboard / voting ledger of darlucas-ai-agent.              *)
(*                                                                         *)
(* The repository holds two bot programs, each with its own store class:   *)
(*   "bot_new" : bot_new.py + agent_new.py + tools/leaderboard.py          *)
(*               (add_meme / update_vote / remove_vote, file db_file)      *)
(*   "bot"     : bot.py + meme_leaderboard.py                              *)
(*               (track_meme / process_reaction / _add_vote /              *)
(*                _remove_vote / reset_all_data, file memes_file)          *)
(* A behaviour is a run of one of the two programs; `program` names it.    *)
(***************************************************************************)
EXTENDS Integers, Sequences, FiniteSets, TLC

\* ---- bounds of the model ------------------------------------------------
NumItems == 2
NumVoters == 2
NumAuthors == 2
NumEmbeds == 1
MaxTime == 1
MaxLimit == 3
MaxCount == 1
MaxLoaded == 1

Items == 1..NumItems        \* message identifiers
Voters == 1..NumVoters      \* identifiers of reacting human users
BotUser == 0                \* a user whose user.bot is true
Users == Voters \cup {BotUser}
Authors == 1..NumAuthors    \* identifiers of meme authors
Embeds == 1..NumEmbeds      \* opaque embed payloads
Times == 1..MaxTime         \* values of datetime.now()
Limits == 0..MaxLimit       \* the limit argument of get_top_memes
Programs == {"bot_new", "bot"}
Emojis == {"thumbs_up", "thumbs_down", "other"}
SortKeys == {"upvotes", "net"}

VARIABLES
    program,   \* which of the two bot programs this run is
    memes,     \* self.memes / self.meme_data["memes"]: message_id -> meme record
    order,     \* insertion order of the keys of that dict
    file,      \* content of the backing JSON file
    writable,  \* whether open(file, 'w') succeeds in this run
    last,      \* the last store call: its arguments and its return value
    contrib,   \* history: net amount each (item, voter) added to the counters
    tasks,     \* the event-handler coroutines the asyncio loop has not finished
    twin,      \* memes of a meme_leaderboard.py store fed the calls of a tools one
    reactions, \* Discord: the thumbs each user has on each message right now
    views,     \* the View objects: LeaderboardView / MemeLeaderboardView
    active_leaderboards,      \* tools/leaderboard.py line 13: message id -> view
    bot_active_leaderboards   \* bot_new.py line 31: self.active_leaderboards

\* the paginated views of the two programs
viewvars == <<views, active_leaderboards, bot_active_leaderboards>>

vars == <<program, memes, order, file, writable, last, contrib, tasks, twin,
          reactions, viewvars>>

\* ---- dictionaries --------------------------------------------------------
EmptyDict == [k \in {} |-> 0]

Put(d, k, v) == [x \in (DOMAIN d) \cup {k} |-> IF x = k THEN v ELSE d[x]]

Del(d, k) == [x \in (DOMAIN d) \ {k} |-> d[x]]

\* dict.get(k, default)
Get(d, k, default) == IF k \in DOMAIN d THEN d[k] ELSE default

Max0(n) == IF n < 0 THEN 0 ELSE n

NameOf(author) == author + 100

None == "None"

PyTrue == "True"

PyFalse == "False"

NoBefore == [upvotes |-> 0, downvotes |-> 0, vote |-> 0, known |-> FALSE]

\* The ledger of (message_id, user_id) as a call finds it.
Before(message_id, user_id) ==
    IF message_id \in DOMAIN memes
    THEN [upvotes |-> memes[message_id].upvotes,
          downvotes |-> memes[message_id].downvotes,
          vote |-> Get(memes[message_id].voters, user_id, 0),
          known |-> TRUE]
    ELSE NoBefore

NoPrior == [kind |-> "other", before |-> NoBefore]

\* What a call asks of the ledger: "up", "down", "remove", or "other".
\* A reaction-removed event asks for a removal when it reaches _remove_vote
\* or finds no vote.
Kind(c) ==
    IF c.op = "update_vote" THEN (IF c.arg THEN "up" ELSE "down")
    ELSE IF c.op = "remove_vote" THEN "remove"
    ELSE IF c.op = "process_reaction"
    THEN IF c.user_id = BotUser \/ c.arg.emoji = "other" THEN "other"
         ELSE IF c.arg.added
         THEN (IF c.arg.emoji = "thumbs_up" THEN "up" ELSE "down")
         ELSE IF c.before.vote = 0
                 \/ c.before.vote = (IF c.arg.emoji = "thumbs_up" THEN 1 ELSE -1)
         THEN "remove"
         ELSE "other"
    ELSE "other"

\* The call before this one, when it was a vote call on the same pair.
Prior(message_id, user_id) ==
    IF /\ last.message_id = message_id
       /\ last.user_id = user_id
       /\ Kind(last) # "other"
    THEN [kind |-> Kind(last), before |-> last.before]
    ELSE NoPrior

Call(op, message_id, user_id, arg, ret, before, prior) ==
    [op |-> op, message_id |-> message_id, user_id |-> user_id,
     arg |-> arg, ret |-> ret, before |-> before, prior |-> prior]

ZeroContrib == [i \in Items |-> [u \in Voters |-> 0]]

\* What the two counters of a meme sum to.
Total(d, message_id) ==
    IF message_id \in DOMAIN d THEN d[message_id].upvotes + d[message_id].downvotes ELSE 0

\* contrib after user_id's call took the store from memes to d.
Contributed(d, message_id, user_id) ==
    IF user_id \notin Voters THEN contrib ELSE
    [contrib EXCEPT ![message_id][user_id] = @ + Total(d, message_id) - Total(memes, message_id)]

\* The clock never runs backwards: now is not before any recorded created_at.
Nows == {t \in Times : \A i \in DOMAIN memes : memes[i].created_at <= t}

\* ---- the backing file ----------------------------------------------------
MissingFile == [state |-> "missing"]

CorruptFile == [state |-> "corrupt"]

Range(s) == {s[k] : k \in 1..Len(s)}

\* json.dump of {'memes': ..., 'last_updated': ...}: the "memes" object is
\* written as its members in dict order, each a key and a record whose
\* "voters" object is written as its members
Dumped(d, o) ==
    [state |-> "json",
     memes |-> [k \in 1..Len(o) |->
                  <<o[k], [d[o[k]] EXCEPT !.voters = {<<u, @[u]>> : u \in DOMAIN @}]>>]]

\* json.load of such a file: <<the "memes" dict, the order of its keys>>
json_load(f) ==
    LET keys == [k \in 1..Len(f.memes) |-> f.memes[k][1]]
        record(i) == f.memes[CHOOSE k \in 1..Len(f.memes) : f.memes[k][1] = i][2]
    IN  <<[i \in Range(keys) |->
              [record(i) EXCEPT !.voters =
                  [u \in {p[1] : p \in @} |-> (CHOOSE p \in record(i).voters : p[1] = u)[2]]]],
          keys>>

\* tools/leaderboard.py save_db on a file whose content is f: the dump, or,
\* when open() raises, the logged error and the file as it was
save_db(f, d, o) == IF writable THEN Dumped(d, o) ELSE f

\* meme_leaderboard.py save_meme_data, likewise
save_meme_data(f, d, o) == IF writable THEN Dumped(d, o) ELSE f

\* load_db that reads the dict under a key the dump does not have
load_db_wrong_key(f) ==
    IF f.state = "missing" THEN <<EmptyDict, <<>>, save_db(f, EmptyDict, <<>>)>>
    ELSE <<EmptyDict, <<>>, f>>

\* tools/leaderboard.py load_db: <<memes, order, file afterwards>>
load_db(f) ==
    IF f.state = "json" THEN <<json_load(f)[1], json_load(f)[2], f>>
    ELSE IF f.state = "missing" THEN <<EmptyDict, <<>>, save_db(f, EmptyDict, <<>>)>>
    ELSE <<EmptyDict, <<>>, f>>

\* meme_leaderboard.py load_meme_data: <<memes, order, file afterwards>>
load_meme_data(f) ==
    IF f.state = "json" THEN <<json_load(f)[1], json_load(f)[2], f>>
    ELSE <<EmptyDict, <<>>, f>>

\* MemeLeaderboard.__init__ of the program, run on a backing file f; the
\* call record keeps f, the file as the constructor found it
Constructed(f) ==
    /\ program \in Programs
    /\ writable \in BOOLEAN
    /\ LET l == IF program = "bot_new" THEN load_db(f) ELSE load_meme_data(f)
       IN  /\ memes = l[1]
           /\ order = l[2]
           /\ file = l[3]
    /\ last = Call("init", 0, 0, f, None, NoBefore, NoPrior)
    /\ contrib = ZeroContrib
    /\ tasks = {}
    /\ twin = EmptyDict
    /\ reactions = [i \in Items |-> [u \in Voters |-> {}]]
    /\ views = EmptyDict
    /\ active_leaderboards = EmptyDict
    /\ bot_active_leaderboards = EmptyDict

Init == Constructed(MissingFile)

\* ---- sorted(values, key=..., reverse=True)[:limit] ------------------------
Min(a, b) == IF a <= b THEN a ELSE b

\* Python's ordering of two key tuples of equal length
TupleLess(a, b) ==
    \E k \in 1..Len(a) : a[k] < b[k] /\ \A j \in 1..(k - 1) : a[j] = b[j]

\* One step of a stable descending sort: x goes behind every element whose
\* key is not smaller than its own (reverse=True keeps equal keys in order).
InsertDescending(s, x, key) ==
    LET smaller == {j \in 1..Len(s) : TupleLess(key[s[j]], key[x])}
        pos == IF smaller = {} THEN Len(s) + 1
               ELSE CHOOSE j \in smaller : \A k \in smaller : j <= k
    IN  SubSeq(s, 1, pos - 1) \o <<x>> \o SubSeq(s, pos, Len(s))

RECURSIVE sorted_reverse(_, _)
sorted_reverse(s, key) ==
    IF s = <<>> THEN <<>>
    ELSE InsertDescending(sorted_reverse(SubSeq(s, 1, Len(s) - 1), key), s[Len(s)], key)

\* s[:limit] for limit >= 0
Slice(s, limit) == SubSeq(s, 1, Min(limit, Len(s)))

\* ---- the loops of get_user_stats -----------------------------------------
\* authored without the comparison of author_id
authored_by_anyone(user_id) == order

\* for ... in memes.items(): if meme["author_id"] == user_id: user_memes.append(meme)
authored(user_id) == SelectSeq(order, LAMBDA i : memes[i].author_id = user_id)

\* stats[...] += meme[...] over the memes of s, count being the field summed
RECURSIVE accumulated(_, _)
accumulated(s, count) ==
    IF s = <<>> THEN 0 ELSE accumulated(SubSeq(s, 1, Len(s) - 1), count) + count[s[Len(s)]]

\* py_max that lets a later element of equal key take over
RECURSIVE py_max_last_of_equals(_, _)
py_max_last_of_equals(s, key) ==
    IF Len(s) = 1 THEN s[1]
    ELSE LET m == py_max_last_of_equals(SubSeq(s, 1, Len(s) - 1), key)
         IN  IF TupleLess(key[s[Len(s)]], key[m]) THEN m ELSE s[Len(s)]

\* max(s, key=...): the first element of s whose key no other element exceeds
RECURSIVE py_max(_, _)
py_max(s, key) ==
    IF Len(s) = 1 THEN s[1]
    ELSE LET m == py_max(SubSeq(s, 1, Len(s) - 1), key)
         IN  IF TupleLess(key[m], key[s[Len(s)]]) THEN s[Len(s)] ELSE m

\* ---- tools/leaderboard.py -------------------------------------------------
\* NewMeme with the author's own upvote counted from the start
NewMeme_self_upvote(message_id, author, embed_data, now) ==
    [message_id |-> message_id,
     author_id |-> author,
     author_name |-> NameOf(author),
     embed_data |-> embed_data,
     upvotes |-> 1,
     downvotes |-> 0,
     created_at |-> now,
     voters |-> EmptyDict]

NewMeme(message_id, author, embed_data, now) ==
    [message_id |-> message_id,
     author_id |-> author,
     author_name |-> NameOf(author),
     embed_data |-> embed_data,
     upvotes |-> 0,
     downvotes |-> 0,
     created_at |-> now,
     voters |-> EmptyDict]

\* add_meme that takes the meme back and returns False when save_db fails
add_meme_rollback(message_id, author, embed_data, now) ==
    /\ program = "bot_new"
    /\ IF message_id \in DOMAIN memes \/ ~writable
       THEN /\ last' = Call("add_meme", message_id, 0, 0, PyFalse, NoBefore, NoPrior)
            /\ UNCHANGED <<memes, order, file, contrib>>
       ELSE /\ memes' = Put(memes, message_id, NewMeme(message_id, author, embed_data, now))
            /\ order' = Append(order, message_id)
            /\ file' = save_db(file, memes', order')
            /\ contrib' = [contrib EXCEPT ![message_id] = [u \in Voters |-> 0]]
            /\ last' = Call("add_meme", message_id, 0, 0, PyTrue, NoBefore, NoPrior)
    /\ UNCHANGED <<program, writable>>

add_meme(message_id, author, embed_data, now) ==
    /\ program = "bot_new"
    /\ IF message_id \in DOMAIN memes
       THEN /\ last' = Call("add_meme", message_id, 0, 0, PyFalse, NoBefore, NoPrior)
            /\ UNCHANGED <<memes, order, file, contrib>>
       ELSE /\ memes' = Put(memes, message_id, NewMeme(message_id, author, embed_data, now))
            /\ order' = Append(order, message_id)
            /\ file' = save_db(file, memes', order')
            /\ contrib' = [contrib EXCEPT ![message_id] = [u \in Voters |-> 0]]
            /\ last' = Call("add_meme", message_id, 0, 0, PyTrue, NoBefore, NoPrior)
    /\ UNCHANGED <<program, writable>>

\* voted without taking the previous vote off its counter
voted_keep_old(meme, user_id, is_upvote) ==
    IF is_upvote
    THEN [meme EXCEPT !.upvotes = @ + 1, !.voters = Put(@, user_id, 1)]
    ELSE [meme EXCEPT !.downvotes = @ + 1, !.voters = Put(@, user_id, -1)]

\* voted that starts the voters dict afresh with this voter alone
voted_alone(meme, user_id, is_upvote) ==
    LET previous_vote == Get(meme.voters, user_id, 0)
        up1 == IF previous_vote = 1 THEN meme.upvotes - 1 ELSE meme.upvotes
        down1 == IF previous_vote = -1 THEN meme.downvotes - 1 ELSE meme.downvotes
    IN  IF is_upvote
        THEN [meme EXCEPT !.upvotes = up1 + 1, !.downvotes = down1,
                          !.voters = Put(EmptyDict, user_id, 1)]
        ELSE [meme EXCEPT !.upvotes = up1, !.downvotes = down1 + 1,
                          !.voters = Put(EmptyDict, user_id, -1)]

\* lines 149-164: the meme after user_id's vote
voted(meme, user_id, is_upvote) ==
    LET previous_vote == Get(meme.voters, user_id, 0)
        up1 == IF previous_vote = 1 THEN meme.upvotes - 1 ELSE meme.upvotes
        down1 == IF previous_vote = -1 THEN meme.downvotes - 1 ELSE meme.downvotes
    IN  IF is_upvote
        THEN [meme EXCEPT !.upvotes = up1 + 1, !.downvotes = down1,
                          !.voters = Put(@, user_id, 1)]
        ELSE [meme EXCEPT !.upvotes = up1, !.downvotes = down1 + 1,
                          !.voters = Put(@, user_id, -1)]

\* update_vote that starts a record for an unknown message_id
update_vote_autocreate(message_id, user_id, is_upvote) ==
    /\ program = "bot_new"
    /\ LET known == message_id \in DOMAIN memes
           meme == IF known THEN memes[message_id] ELSE NewMeme(message_id, 1, 1, 1)
       IN  /\ memes' = Put(memes, message_id,
                           LET previous_vote == Get(meme.voters, user_id, 0)
                               up1 == IF previous_vote = 1 THEN meme.upvotes - 1 ELSE meme.upvotes
                               down1 == IF previous_vote = -1 THEN meme.downvotes - 1
                                        ELSE meme.downvotes
                           IN  IF is_upvote
                               THEN [meme EXCEPT !.upvotes = up1 + 1, !.downvotes = down1,
                                                 !.voters = Put(@, user_id, 1)]
                               ELSE [meme EXCEPT !.upvotes = up1, !.downvotes = down1 + 1,
                                                 !.voters = Put(@, user_id, -1)])
           /\ order' = IF known THEN order ELSE Append(order, message_id)
    /\ file' = save_db(file, memes', order')
    /\ contrib' = Contributed(memes', message_id, user_id)
    /\ last' = Call("update_vote", message_id, user_id, is_upvote, PyTrue,
                    Before(message_id, user_id), Prior(message_id, user_id))
    /\ UNCHANGED <<program, writable>>

update_vote(message_id, user_id, is_upvote) ==
    /\ program = "bot_new"
    /\ IF message_id \notin DOMAIN memes
       THEN /\ last' = Call("update_vote", message_id, user_id, is_upvote, PyFalse,
                            Before(message_id, user_id), Prior(message_id, user_id))
            /\ UNCHANGED <<memes, order, file, contrib>>
       ELSE /\ memes' = [memes EXCEPT ![message_id] = voted(@, user_id, is_upvote)]
            /\ file' = save_db(file, memes', order)
            /\ contrib' = Contributed(memes', message_id, user_id)
            /\ last' = Call("update_vote", message_id, user_id, is_upvote, PyTrue,
                            Before(message_id, user_id), Prior(message_id, user_id))
            /\ UNCHANGED order
    /\ UNCHANGED <<program, writable>>

\* unvoted that leaves the voter's entry in place
unvoted_keep_entry(meme, user_id) ==
    LET previous_vote == meme.voters[user_id]
    IN  [meme EXCEPT
            !.upvotes = IF previous_vote = 1 THEN @ - 1 ELSE @,
            !.downvotes = IF previous_vote = -1 THEN @ - 1 ELSE @]

\* lines 180-186: the meme after user_id's vote is taken back
unvoted(meme, user_id) ==
    LET previous_vote == meme.voters[user_id]
    IN  [meme EXCEPT
            !.upvotes = IF previous_vote = 1 THEN @ - 1 ELSE @,
            !.downvotes = IF previous_vote = -1 THEN @ - 1 ELSE @,
            !.voters = Del(@, user_id)]

\* remove_vote without the early return for a user who has no vote
remove_vote_no_early_return(message_id, user_id) ==
    /\ program = "bot_new"
    /\ IF message_id \notin DOMAIN memes
       THEN /\ last' = Call("remove_vote", message_id, user_id, 0, PyFalse,
                            Before(message_id, user_id), Prior(message_id, user_id))
            /\ UNCHANGED <<memes, order, file, contrib>>
       ELSE /\ memes' = [memes EXCEPT ![message_id] =
                            IF user_id \in DOMAIN @.voters THEN unvoted(@, user_id) ELSE @]
            /\ file' = save_db(file, memes', order)
            /\ contrib' = Contributed(memes', message_id, user_id)
            /\ last' = Call("remove_vote", message_id, user_id, 0, PyTrue,
                            Before(message_id, user_id), Prior(message_id, user_id))
            /\ UNCHANGED order
    /\ UNCHANGED <<program, writable>>

remove_vote(message_id, user_id) ==
    /\ program = "bot_new"
    /\ IF message_id \notin DOMAIN memes
       THEN /\ last' = Call("remove_vote", message_id, user_id, 0, PyFalse,
                            Before(message_id, user_id), Prior(message_id, user_id))
            /\ UNCHANGED <<memes, order, file, contrib>>
       ELSE IF user_id \notin DOMAIN memes[message_id].voters
       THEN /\ last' = Call("remove_vote", message_id, user_id, 0, PyFalse,
                            Before(message_id, user_id), Prior(message_id, user_id))
            /\ UNCHANGED <<memes, order, file, contrib>>
       ELSE /\ memes' = [memes EXCEPT ![message_id] = unvoted(@, user_id)]
            /\ file' = save_db(file, memes', order)
            /\ contrib' = Contributed(memes', message_id, user_id)
            /\ last' = Call("remove_vote", message_id, user_id, 0, PyTrue,
                            Before(message_id, user_id), Prior(message_id, user_id))
            /\ UNCHANGED order
    /\ UNCHANGED <<program, writable>>

\* key=lambda x: x.get('upvotes', 0)
upvotes_key(meme) == <<meme.upvotes>>

\* key=lambda x: x.get('upvotes', 0) - x.get('downvotes', 0)
net_key(meme) == <<meme.upvotes - meme.downvotes>>

\* get_top_memes that sorts the store itself and saves it
get_top_memes_tools_in_place(limit, sort_by) ==
    /\ program = "bot_new"
    /\ LET key == IF sort_by = "upvotes"
                  THEN [i \in DOMAIN memes |-> upvotes_key(memes[i])]
                  ELSE [i \in DOMAIN memes |-> net_key(memes[i])]
           sorted_memes == sorted_reverse(order, key)
       IN  /\ order' = sorted_memes
           /\ file' = save_db(file, memes, order')
           /\ last' = Call("get_top_memes", 0, 0, [limit |-> limit, sort_by |-> sort_by],
                           Slice(sorted_memes, limit), NoBefore, NoPrior)
    /\ UNCHANGED <<program, memes, writable, contrib>>

\* tools/leaderboard.py get_top_memes; sort_by defaults to 'upvotes'
get_top_memes_tools(limit, sort_by) ==
    /\ program = "bot_new"
    /\ LET key == IF sort_by = "upvotes"
                  THEN [i \in DOMAIN memes |-> upvotes_key(memes[i])]
                  ELSE [i \in DOMAIN memes |-> net_key(memes[i])]
           sorted_memes == sorted_reverse(order, key)
       IN  last' = Call("get_top_memes", 0, 0, [limit |-> limit, sort_by |-> sort_by],
                        Slice(sorted_memes, limit), NoBefore, NoPrior)
    /\ UNCHANGED <<program, memes, order, file, writable, contrib>>

\* tools/leaderboard.py get_user_stats; top_memes holds message ids
user_stats_tools(user_id) ==
    LET user_memes == authored(user_id)
        total_upvotes == accumulated(user_memes, [i \in DOMAIN memes |-> memes[i].upvotes])
        total_downvotes == accumulated(user_memes, [i \in DOMAIN memes |-> memes[i].downvotes])
    IN  [user_id |-> user_id,
         total_memes |-> Len(user_memes),
         total_upvotes |-> total_upvotes,
         total_downvotes |-> total_downvotes,
         net_score |-> total_upvotes - total_downvotes,
         top_memes |-> Slice(sorted_reverse(user_memes,
                                            [i \in DOMAIN memes |-> upvotes_key(memes[i])]), 3)]

get_user_stats_tools(user_id) ==
    /\ program = "bot_new"
    /\ last' = Call("get_user_stats", 0, user_id, 0, user_stats_tools(user_id),
                    NoBefore, NoPrior)
    /\ UNCHANGED <<program, memes, order, file, writable, contrib>>

\* ---- meme_leaderboard.py --------------------------------------------------
\* _remove_vote that forgets the voter but leaves the counters alone
_remove_vote_keep_count(meme, user_id) ==
    IF user_id \in DOMAIN meme.voters
    THEN [meme EXCEPT !.voters = Del(@, user_id)]
    ELSE meme

_remove_vote(meme, user_id) ==
    IF user_id \in DOMAIN meme.voters
    THEN LET vote == meme.voters[user_id]
         IN  [meme EXCEPT
                 !.upvotes = IF vote = 1 THEN Max0(@ - 1) ELSE @,
                 !.downvotes = IF vote = -1 THEN Max0(@ - 1) ELSE @,
                 !.voters = Del(@, user_id)]
    ELSE meme

\* _add_vote without the _remove_vote of the existing vote
_add_vote_keep_old(meme, user_id, vote_value) ==
    [meme EXCEPT
        !.upvotes = IF vote_value = 1 THEN @ + 1 ELSE @,
        !.downvotes = IF vote_value = -1 THEN @ + 1 ELSE @,
        !.voters = Put(@, user_id, vote_value)]

\* _add_vote that takes the old vote off only when the polarity changes
_add_vote_switch_only(meme, user_id, vote_value) ==
    LET m == IF Get(meme.voters, user_id, 0) = vote_value THEN meme
             ELSE _remove_vote(meme, user_id)
    IN  [m EXCEPT
            !.upvotes = IF vote_value = 1 THEN @ + 1 ELSE @,
            !.downvotes = IF vote_value = -1 THEN @ + 1 ELSE @,
            !.voters = Put(@, user_id, vote_value)]

_add_vote(meme, user_id, vote_value) ==
    LET m == _remove_vote(meme, user_id)
    IN  [m EXCEPT
            !.upvotes = IF vote_value = 1 THEN @ + 1 ELSE @,
            !.downvotes = IF vote_value = -1 THEN @ + 1 ELSE @,
            !.voters = Put(@, user_id, vote_value)]

track_meme(message_id, author, embed_data, now) ==
    /\ program = "bot"
    /\ memes' = Put(memes, message_id, NewMeme(message_id, author, embed_data, now))
    /\ order' = IF message_id \in DOMAIN memes THEN order ELSE Append(order, message_id)
    /\ file' = save_meme_data(file, memes', order')
    /\ contrib' = [contrib EXCEPT ![message_id] = [u \in Voters |-> 0]]
    /\ last' = Call("track_meme", message_id, 0, 0, None, NoBefore, NoPrior)
    /\ UNCHANGED <<program, writable>>

\* reacted that ignores an added reaction of a user who has a vote already
reacted_first_vote_wins(meme, user_id, emoji, added) ==
    IF added
    THEN IF user_id \in DOMAIN meme.voters THEN meme
         ELSE IF emoji = "thumbs_up" THEN _add_vote(meme, user_id, 1)
         ELSE IF emoji = "thumbs_down" THEN _add_vote(meme, user_id, -1)
         ELSE meme
    ELSE IF emoji # "other" /\ Get(meme.voters, user_id, 0)
                                  = (IF emoji = "thumbs_up" THEN 1 ELSE -1)
         THEN _remove_vote(meme, user_id)
         ELSE meme

\* lines 119-131: the meme after the reaction event
reacted(meme, user_id, emoji, added) ==
    IF added
    THEN IF emoji = "thumbs_up" THEN _add_vote(meme, user_id, 1)
         ELSE IF emoji = "thumbs_down" THEN _add_vote(meme, user_id, -1)
         ELSE meme
    ELSE IF emoji = "thumbs_up" /\ user_id \in DOMAIN meme.voters
                                /\ meme.voters[user_id] = 1
         THEN _remove_vote(meme, user_id)
         ELSE IF emoji = "thumbs_down" /\ user_id \in DOMAIN meme.voters
                                       /\ meme.voters[user_id] = -1
         THEN _remove_vote(meme, user_id)
         ELSE meme

\* process_reaction without the save_meme_data that ends it
process_reaction_no_save(message_id, user_id, emoji, added) ==
    /\ program = "bot"
    /\ last' = Call("process_reaction", message_id, user_id,
                    [emoji |-> emoji, added |-> added], None,
                    Before(message_id, user_id), Prior(message_id, user_id))
    /\ IF user_id = BotUser \/ message_id \notin DOMAIN memes
       THEN UNCHANGED <<memes, order, file, contrib>>
       ELSE /\ memes' = [memes EXCEPT ![message_id] = reacted(@, user_id, emoji, added)]
            /\ contrib' = Contributed(memes', message_id, user_id)
            /\ UNCHANGED <<order, file>>
    /\ UNCHANGED <<program, writable>>

process_reaction(message_id, user_id, emoji, added) ==
    /\ program = "bot"
    /\ last' = Call("process_reaction", message_id, user_id,
                    [emoji |-> emoji, added |-> added], None,
                    Before(message_id, user_id), Prior(message_id, user_id))
    /\ IF user_id = BotUser \/ message_id \notin DOMAIN memes
       THEN UNCHANGED <<memes, order, file, contrib>>
       ELSE /\ memes' = [memes EXCEPT ![message_id] = reacted(@, user_id, emoji, added)]
            /\ file' = save_meme_data(file, memes', order)
            /\ contrib' = Contributed(memes', message_id, user_id)
            /\ UNCHANGED order
    /\ UNCHANGED <<program, writable>>

\* popularity_key without the upvotes tie-break
popularity_key_net_only(meme) == <<meme.upvotes - meme.downvotes>>

\* key=lambda m: (m["upvotes"] - m["downvotes"], m["upvotes"])
popularity_key(meme) == <<meme.upvotes - meme.downvotes, meme.upvotes>>

\* What a query records of the call before it: whether it was the reset.
AfterReset ==
    IF last.op = "reset_all_data" THEN [kind |-> "reset", before |-> last.before] ELSE NoPrior

\* meme_leaderboard.py get_top_memes
get_top_memes(limit) ==
    /\ program = "bot"
    /\ LET key == [i \in DOMAIN memes |-> popularity_key(memes[i])]
           sorted_memes == sorted_reverse(order, key)
       IN  last' = Call("get_top_memes", 0, 0, [limit |-> limit, sort_by |-> "popularity"],
                        Slice(sorted_memes, limit), NoBefore, AfterReset)
    /\ UNCHANGED <<program, memes, order, file, writable, contrib>>

\* meme_leaderboard.py get_user_stats; most_popular_meme is <<>> for None
\* and <<message_id>> for a meme
user_stats(user_id) ==
    LET user_memes == authored(user_id)
        total_upvotes == accumulated(user_memes, [i \in DOMAIN memes |-> memes[i].upvotes])
        total_downvotes == accumulated(user_memes, [i \in DOMAIN memes |-> memes[i].downvotes])
    IN  [memes_created |-> Len(user_memes),
         total_upvotes |-> total_upvotes,
         total_downvotes |-> total_downvotes,
         net_popularity |-> total_upvotes - total_downvotes,
         most_popular_meme |->
             IF user_memes # <<>>
             THEN <<py_max(user_memes, [i \in DOMAIN memes |-> popularity_key(memes[i])])>>
             ELSE <<>>]

get_user_stats(user_id) ==
    /\ program = "bot"
    /\ last' = Call("get_user_stats", 0, user_id, 0, user_stats(user_id), NoBefore, AfterReset)
    /\ UNCHANGED <<program, memes, order, file, writable, contrib>>

\* The whole store as a call finds it: the counters summed over every meme.
BeforeAll ==
    [upvotes |-> accumulated(order, [i \in DOMAIN memes |-> memes[i].upvotes]),
     downvotes |-> accumulated(order, [i \in DOMAIN memes |-> memes[i].downvotes]),
     vote |-> 0,
     known |-> order # <<>>]

\* reset_all_data that wipes the ledgers but keeps the memes
reset_all_data_keep_memes ==
    /\ program = "bot"
    /\ memes' = [i \in DOMAIN memes |->
                    [memes[i] EXCEPT !.upvotes = 0, !.downvotes = 0, !.voters = EmptyDict]]
    /\ order' = order
    /\ file' = save_meme_data(file, memes', order')
    /\ contrib' = ZeroContrib
    /\ last' = Call("reset_all_data", 0, 0, 0, "reset", BeforeAll, NoPrior)
    /\ UNCHANGED <<program, writable>>

reset_all_data ==
    /\ program = "bot"
    /\ memes' = EmptyDict
    /\ order' = <<>>
    /\ file' = save_meme_data(file, memes', order')
    /\ contrib' = ZeroContrib
    /\ last' = Call("reset_all_data", 0, 0, 0, "reset", BeforeAll, NoPrior)
    /\ UNCHANGED <<program, writable>>

\* ---- both programs ---------------------------------------------------------
\* The store saves and a fresh MemeLeaderboard() is constructed on the same
\* file (a restart of the program); the call record keeps the file it read.
save_then_load ==
    /\ LET saved == IF program = "bot_new" THEN save_db(file, memes, order)
                    ELSE save_meme_data(file, memes, order)
           l == IF program = "bot_new" THEN load_db(saved) ELSE load_meme_data(saved)
       IN  /\ memes' = l[1]
           /\ order' = l[2]
           /\ file' = l[3]
           /\ last' = Call("save_then_load", 0, 0, saved, None, NoBefore, NoPrior)
    /\ contrib' = IF memes' = memes THEN contrib ELSE ZeroContrib
    /\ UNCHANGED <<program, writable>>

Next ==
    \/ \E i \in Items, a \in Authors, e \in Embeds, t \in Nows : add_meme(i, a, e, t) /\ UNCHANGED <<tasks, twin, reactions, viewvars>>
    \/ \E i \in Items, u \in Voters, b \in BOOLEAN : update_vote(i, u, b) /\ UNCHANGED <<tasks, twin, reactions, viewvars>>
    \/ \E i \in Items, u \in Voters : remove_vote(i, u) /\ UNCHANGED <<tasks, twin, reactions, viewvars>>
    \/ \E i \in Items, a \in Authors, e \in Embeds, t \in Nows : track_meme(i, a, e, t) /\ UNCHANGED <<tasks, twin, reactions, viewvars>>
    \/ \E i \in Items, u \in Users, e \in Emojis, d \in BOOLEAN :
           process_reaction(i, u, e, d) /\ UNCHANGED <<tasks, twin, reactions, viewvars>>
    \/ reset_all_data /\ UNCHANGED <<tasks, twin, reactions, viewvars>>
    \/ \E n \in Limits, k \in SortKeys : get_top_memes_tools(n, k) /\ UNCHANGED <<tasks, twin, reactions, viewvars>>
    \/ \E n \in Limits : get_top_memes(n) /\ UNCHANGED <<tasks, twin, reactions, viewvars>>
    \/ \E a \in Authors : get_user_stats_tools(a) /\ UNCHANGED <<tasks, twin, reactions, viewvars>>
    \/ \E a \in Authors : get_user_stats(a) /\ UNCHANGED <<tasks, twin, reactions, viewvars>>
    \/ save_then_load /\ UNCHANGED <<tasks, twin, reactions, viewvars>>

Spec == Init /\ [][Next]_vars

\* ---- a store constructed on an existing backing file ---------------------
VoterMaps == UNION {[S -> {1, -1}] : S \in SUBSET Voters}

\* Records of the persisted layout; the cached counts are whatever the file says.
LoadableRecords ==
    {[NewMeme(i, a, e, t) EXCEPT !.upvotes = up, !.downvotes = down, !.voters = v] :
        i \in Items, a \in Authors, e \in Embeds, t \in Times,
        up \in 0..MaxCount, down \in 0..MaxCount, v \in VoterMaps}

LoadableOrders ==
    {o \in UNION {[1..n -> Items] : n \in 0..MaxLoaded} :
        \A j, k \in 1..Len(o) : j # k => o[j] # o[k]}

LoadableFiles ==
    {MissingFile, CorruptFile} \cup
    UNION {{Dumped(d, o) :
                d \in {x \in [Range(o) -> LoadableRecords] :
                          \A i \in Range(o) : x[i].message_id = i}} :
           o \in LoadableOrders}

InitLoaded == \E f \in LoadableFiles : Constructed(f)

\* The vote calls of the two programs.
NextLedger ==
    \/ \E i \in Items, u \in Voters, b \in BOOLEAN : update_vote(i, u, b) /\ UNCHANGED <<tasks, twin, reactions, viewvars>>
    \/ \E i \in Items, u \in Voters : remove_vote(i, u) /\ UNCHANGED <<tasks, twin, reactions, viewvars>>
    \/ \E i \in Items, u \in Users, e \in Emojis, d \in BOOLEAN :
           process_reaction(i, u, e, d) /\ UNCHANGED <<tasks, twin, reactions, viewvars>>

SpecLoaded == InitLoaded /\ [][NextLedger]_vars

\* ---- the event handlers on the asyncio loop ------------------------------
\* discord.py starts one coroutine per event; a coroutine runs until its next
\* await, and only there can another coroutine run.
NumEventItems == 1

MaxTasks == 2

EventItems == 1..NumEventItems

\* A coroutine: its handler, the event it was started for (for a command,
\* its action argument), where it waits (pc) and the vote it has read (seen).
Task(handler, message_id, user_id, emoji, pc) ==
    [handler |-> handler, message_id |-> message_id, user_id |-> user_id,
     emoji |-> emoji, action |-> "none", pc |-> pc, seen |-> 0]

\* What a step that makes no store call leaves alone.
NoStoreCall == UNCHANGED <<program, memes, order, file, writable, last, contrib>>

\* A reaction is added to or removed from a message: on_reaction_add /
\* on_reaction_remove is scheduled.
dispatch_reaction(message_id, user_id, emoji, added) ==
    /\ Cardinality(tasks) < MaxTasks
    /\ LET t == Task(IF added THEN "on_reaction_add" ELSE "on_reaction_remove",
                     message_id, user_id, emoji, "start")
       IN  /\ t \notin tasks
           /\ tasks' = tasks \cup {t}
    /\ NoStoreCall

\* A user asks for a meme: the handler runs up to the await of the send of
\* the meme message (agent_new.py run, bot.py generate_meme).
dispatch_meme(message_id, author) ==
    /\ Cardinality(tasks) < MaxTasks
    /\ message_id \notin DOMAIN memes
    /\ \A t \in tasks : t.handler = "run" => t.message_id # message_id
    /\ tasks' = tasks \cup {Task("run", message_id, author, "other", "send")}
    /\ NoStoreCall

\* The meme message is posted; the handler is ready to resume.
message_sent(t) ==
    /\ t \in tasks
    /\ t.handler = "run"
    /\ t.pc = "send"
    /\ tasks' = (tasks \ {t}) \cup {[t EXCEPT !.pc = "sent"]}
    /\ NoStoreCall

\* The handler resumes, registers the meme and waits for add_reaction.
register_meme(t) ==
    /\ t \in tasks
    /\ t.handler = "run"
    /\ t.pc = "sent"
    /\ tasks' = (tasks \ {t}) \cup {[t EXCEPT !.pc = "react"]}
    /\ \E e \in Embeds, now \in Nows :
           IF program = "bot_new"
           THEN add_meme(t.message_id, t.user_id, e, now)
           ELSE track_meme(t.message_id, t.user_id, e, now)

\* The two add_reaction calls return and the handler ends.
reactions_added(t) ==
    /\ t \in tasks
    /\ t.handler = "run"
    /\ t.pc = "react"
    /\ tasks' = tasks \ {t}
    /\ NoStoreCall

\* handle_reaction that awaits between reading the user's vote and writing
handle_reaction_yielding(t) ==
    /\ program = "bot_new"
    /\ t \in tasks
    /\ t.handler = "on_reaction_add"
    /\ IF \/ t.user_id = BotUser
          \/ t.emoji = "other"
          \/ t.message_id \notin DOMAIN memes
       THEN /\ tasks' = tasks \ {t}
            /\ NoStoreCall
       ELSE IF t.pc = "start"
       THEN /\ tasks' = (tasks \ {t}) \cup
                        {[t EXCEPT !.pc = "read",
                                   !.seen = Get(memes[t.message_id].voters, t.user_id, 0)]}
            /\ NoStoreCall
       ELSE /\ tasks' = tasks \ {t}
            /\ memes' = [memes EXCEPT ![t.message_id] =
                   [@ EXCEPT
                       !.upvotes = @ - (IF t.seen = 1 THEN 1 ELSE 0)
                                     + (IF t.emoji = "thumbs_up" THEN 1 ELSE 0),
                       !.downvotes = @ - (IF t.seen = -1 THEN 1 ELSE 0)
                                       + (IF t.emoji = "thumbs_down" THEN 1 ELSE 0),
                       !.voters = Put(@, t.user_id,
                                      IF t.emoji = "thumbs_up" THEN 1 ELSE -1)]]
            /\ file' = save_db(file, memes', order)
            /\ contrib' = Contributed(memes', t.message_id, t.user_id)
            /\ last' = Call("update_vote", t.message_id, t.user_id,
                            t.emoji = "thumbs_up", PyTrue,
                            Before(t.message_id, t.user_id),
                            Prior(t.message_id, t.user_id))
            /\ UNCHANGED <<program, order, writable>>

\* handle_reaction that takes every emoji but the thumbs-up for a downvote
handle_reaction_any_emoji(t) ==
    /\ program = "bot_new"
    /\ t \in tasks
    /\ t.handler = "on_reaction_add"
    /\ tasks' = tasks \ {t}
    /\ IF t.user_id = BotUser
       THEN NoStoreCall
       ELSE update_vote(t.message_id, t.user_id, t.emoji = "thumbs_up")

\* bot_new.py on_reaction_add -> agent_new.py handle_reaction: no await
\* from its first line to the return of update_vote
handle_reaction(t) ==
    /\ program = "bot_new"
    /\ t \in tasks
    /\ t.handler = "on_reaction_add"
    /\ tasks' = tasks \ {t}
    /\ IF t.user_id = BotUser \/ t.emoji = "other"
       THEN NoStoreCall
       ELSE update_vote(t.message_id, t.user_id, t.emoji = "thumbs_up")

\* bot_new.py on_reaction_remove -> agent_new.py handle_reaction_remove
handle_reaction_remove(t) ==
    /\ program = "bot_new"
    /\ t \in tasks
    /\ t.handler = "on_reaction_remove"
    /\ tasks' = tasks \ {t}
    /\ IF t.user_id = BotUser \/ t.emoji = "other"
       THEN NoStoreCall
       ELSE remove_vote(t.message_id, t.user_id)

\* bot.py on_reaction_add / on_reaction_remove -> process_reaction: no await
\* inside process_reaction
on_reaction(t) ==
    /\ program = "bot"
    /\ t \in tasks
    /\ t.handler \in {"on_reaction_add", "on_reaction_remove"}
    /\ tasks' = tasks \ {t}
    /\ IF t.user_id = BotUser
       THEN NoStoreCall
       ELSE process_reaction(t.message_id, t.user_id, t.emoji, t.handler = "on_reaction_add")

\* The users whose guild_permissions.administrator is true.
Administrators == {1}

\* The action argument of the leaderboard command, lowered.
Actions == {"reset", "mystats"}

\* A user sends the leaderboard command with an action: show_leaderboard is
\* scheduled.
dispatch_command(user_id, action) ==
    /\ program = "bot"
    /\ Cardinality(tasks) < MaxTasks
    /\ LET t == [Task("show_leaderboard", 0, user_id, "other", "start")
                    EXCEPT !.action = action]
       IN  /\ t \notin tasks
           /\ tasks' = tasks \cup {t}
    /\ NoStoreCall

\* show_leaderboard that resets for whoever asks
show_leaderboard_no_check(t) ==
    /\ program = "bot"
    /\ t \in tasks
    /\ t.handler = "show_leaderboard"
    /\ tasks' = tasks \ {t}
    /\ IF t.action = "reset" THEN reset_all_data ELSE get_user_stats(t.user_id)

\* bot.py show_leaderboard with action "reset" or "mystats"; a refused reset
\* is recorded as a call that returned "denied"
show_leaderboard(t) ==
    /\ program = "bot"
    /\ t \in tasks
    /\ t.handler = "show_leaderboard"
    /\ tasks' = tasks \ {t}
    /\ IF t.action = "reset"
       THEN IF t.user_id \in Administrators
            THEN reset_all_data
            ELSE /\ last' = Call("show_leaderboard", 0, t.user_id, t.action, "denied",
                                 BeforeAll, NoPrior)
                 /\ UNCHANGED <<program, memes, order, file, writable, contrib>>
       ELSE get_user_stats(t.user_id)

InitEvents == Init /\ writable

NextEvents ==
    \/ \E i \in EventItems, u \in Users, e \in Emojis, d \in BOOLEAN :
           dispatch_reaction(i, u, e, d) /\ UNCHANGED <<twin, reactions, viewvars>>
    \/ \E i \in EventItems, a \in Authors :
           dispatch_meme(i, a) /\ UNCHANGED <<twin, reactions, viewvars>>
    \/ \E t \in tasks : message_sent(t) /\ UNCHANGED <<twin, reactions, viewvars>>
    \/ \E t \in tasks : register_meme(t) /\ UNCHANGED <<twin, reactions, viewvars>>
    \/ \E t \in tasks : reactions_added(t) /\ UNCHANGED <<twin, reactions, viewvars>>
    \/ \E t \in tasks : handle_reaction(t) /\ UNCHANGED <<twin, reactions, viewvars>>
    \/ \E t \in tasks : handle_reaction_remove(t) /\ UNCHANGED <<twin, reactions, viewvars>>
    \/ \E t \in tasks : on_reaction(t) /\ UNCHANGED <<twin, reactions, viewvars>>
    \/ \E u \in Voters, a \in Actions :
           dispatch_command(u, a) /\ UNCHANGED <<twin, reactions, viewvars>>
    \/ \E t \in tasks : show_leaderboard(t) /\ UNCHANGED <<twin, reactions, viewvars>>

SpecEvents == InitEvents /\ [][NextEvents]_vars

\* ---- a user's thumbs on a tracked meme -------------------------------------
\* Discord reports a reaction added when the user did not have it and
\* removed when the user had it; a user can hold both thumbs at once. The
\* handler of an event has no await before its store call, so events are
\* handled in the order Discord reports them.
Thumbs == Emojis \ {"other"}

InitReactions == Init /\ writable

\* The bot posts a new message and registers it: agent_new.py register_meme
\* or bot.py track_meme.
meme_posted(message_id, author, embed_data, now) ==
    /\ message_id \notin DOMAIN memes
    /\ IF program = "bot_new"
       THEN add_meme(message_id, author, embed_data, now)
       ELSE track_meme(message_id, author, embed_data, now)
    /\ UNCHANGED <<tasks, twin, reactions, viewvars>>

\* on_reaction_add: agent_new.py handle_reaction, bot.py on_reaction_add
thumb_added(message_id, user_id, emoji) ==
    /\ message_id \in DOMAIN memes
    /\ emoji \notin reactions[message_id][user_id]
    /\ reactions' = [reactions EXCEPT ![message_id][user_id] = @ \cup {emoji}]
    /\ IF program = "bot_new"
       THEN update_vote(message_id, user_id, emoji = "thumbs_up")
       ELSE process_reaction(message_id, user_id, emoji, TRUE)
    /\ UNCHANGED <<tasks, twin, viewvars>>

\* on_reaction_remove: agent_new.py handle_reaction_remove, bot.py
\* on_reaction_remove
thumb_removed(message_id, user_id, emoji) ==
    /\ message_id \in DOMAIN memes
    /\ emoji \in reactions[message_id][user_id]
    /\ reactions' = [reactions EXCEPT ![message_id][user_id] = @ \ {emoji}]
    /\ IF program = "bot_new"
       THEN remove_vote(message_id, user_id)
       ELSE process_reaction(message_id, user_id, emoji, FALSE)
    /\ UNCHANGED <<tasks, twin, viewvars>>

NextReactions ==
    \/ \E i \in Items, a \in Authors, e \in Embeds, t \in Nows : meme_posted(i, a, e, t)
    \/ \E i \in Items, u \in Voters, e \in Thumbs : thumb_added(i, u, e)
    \/ \E i \in Items, u \in Voters, e \in Thumbs : thumb_removed(i, u, e)

SpecReactions == InitReactions /\ [][NextReactions]_vars

\* ---- reactions to a meme that is being posted ------------------------------
\* The message is on Discord once the send has gone through, so users can
\* react to it before the handler that sent it has resumed.
Posted(message_id) ==
    \/ message_id \in DOMAIN memes
    \/ \E t \in tasks : /\ t.handler = "run"
                        /\ t.message_id = message_id
                        /\ t.pc \in {"sent", "react"}

\* A user puts a thumb on a posted message: on_reaction_add is scheduled.
thumb_dispatched(message_id, user_id, emoji) ==
    /\ Posted(message_id)
    /\ emoji \notin reactions[message_id][user_id]
    /\ reactions' = [reactions EXCEPT ![message_id][user_id] = @ \cup {emoji}]
    /\ dispatch_reaction(message_id, user_id, emoji, TRUE)

NextPosting ==
    \/ \E i \in EventItems, a \in Authors :
           dispatch_meme(i, a) /\ UNCHANGED <<twin, reactions, viewvars>>
    \/ \E t \in tasks : message_sent(t) /\ UNCHANGED <<twin, reactions, viewvars>>
    \/ \E t \in tasks : register_meme(t) /\ UNCHANGED <<twin, reactions, viewvars>>
    \/ \E t \in tasks : reactions_added(t) /\ UNCHANGED <<twin, reactions, viewvars>>
    \/ \E i \in EventItems, u \in Voters, e \in Thumbs :
           thumb_dispatched(i, u, e) /\ UNCHANGED <<twin, viewvars>>
    \/ \E t \in tasks : handle_reaction(t) /\ UNCHANGED <<twin, reactions, viewvars>>
    \/ \E t \in tasks : on_reaction(t) /\ UNCHANGED <<twin, reactions, viewvars>>

SpecPosting == InitEvents /\ [][NextPosting]_vars

\* ---- the paginated leaderboard ---------------------------------------------
NumViewMessages == 1

\* get_top_memes(limit=10) of tools/leaderboard.py, get_top_memes(20) of bot.py
PageLimit == 10

BotPageLimit == 20

\* ids of the messages that carry a leaderboard
ViewMessages == 1..NumViewMessages

CustomIds == {"prev", "next"}

\* A view object is named by how it was made and the message it is for:
\* "sent" with the leaderboard message, "temp" inside the button handler of
\* tools/leaderboard.py.
Sent(message_id) == <<"sent", message_id>>

Temp(message_id) == <<"temp", message_id>>

\* LeaderboardView.__init__ / MemeLeaderboardView.__init__; finished is
\* discord.py's View.is_finished()
LeaderboardView(view_memes, message_id) ==
    [memes |-> view_memes, current_page |-> 0, total_pages |-> Len(view_memes),
     message_id |-> message_id, finished |-> FALSE]

\* generate_embed / get_current_embed: <<>> for the red "No memes" embed,
\* else the meme of the page
generate_embed(view) ==
    IF view.memes = <<>> \/ view.current_page >= Len(view.memes)
    THEN <<>>
    ELSE <<view.memes[view.current_page + 1]>>

\* leaderboard.get_top_memes(limit) with the default sort_by
top_memes(limit) ==
    Slice(sorted_reverse(order, [i \in DOMAIN memes |-> upvotes_key(memes[i])]), limit)

\* the page after a button press on a tracked view
prev_page(view) == IF view.current_page - 1 > 0 THEN view.current_page - 1 ELSE 0

next_page(view) == Min(view.total_pages - 1, view.current_page + 1)

InitViews == Init /\ writable

\* bot_new.py _leaderboard with generate_paginated_leaderboard: message_id is
\* the id of the message that ctx.send returns
_leaderboard(message_id) ==
    /\ \A v \in DOMAIN views : views[v].message_id # message_id
    /\ get_top_memes_tools(PageLimit, "upvotes")
    /\ IF last'.ret = <<>>
       THEN UNCHANGED viewvars
       ELSE /\ views' = Put(views, Sent(message_id), LeaderboardView(last'.ret, message_id))
            /\ bot_active_leaderboards' =
                   Put(bot_active_leaderboards, message_id, Sent(message_id))
            /\ UNCHANGED active_leaderboards
    /\ UNCHANGED <<tasks, twin, reactions>>

\* bot_new.py on_interaction -> DiscordBot.handle_leaderboard_buttons
DiscordBot_handle_leaderboard_buttons(message_id, custom_id) ==
    /\ program = "bot_new"
    /\ IF message_id \notin DOMAIN bot_active_leaderboards
       THEN /\ last' = Call("DiscordBot.handle_leaderboard_buttons", message_id, 0,
                            custom_id, "expired", NoBefore, NoPrior)
            /\ UNCHANGED views
       ELSE LET v == bot_active_leaderboards[message_id]
                page == IF custom_id = "prev" THEN prev_page(views[v])
                        ELSE next_page(views[v])
            IN  /\ views' = [views EXCEPT ![v].current_page = page]
                /\ last' = Call("DiscordBot.handle_leaderboard_buttons", message_id, 0,
                                custom_id, generate_embed(views'[v]), NoBefore, NoPrior)
    /\ UNCHANGED <<program, memes, order, file, writable, contrib>>
    /\ UNCHANGED <<tasks, twin, reactions, active_leaderboards, bot_active_leaderboards>>

\* tools/leaderboard.py handle_leaderboard_buttons, which keeps its views in
\* the module's active_leaderboards
handle_leaderboard_buttons(message_id, custom_id) ==
    /\ program = "bot_new"
    /\ IF message_id \notin DOMAIN active_leaderboards
       THEN LET temp_view == LeaderboardView(top_memes(PageLimit), message_id)
                page == IF custom_id = "prev" THEN 0 ELSE 1
            IN  /\ active_leaderboards' =
                       Put(active_leaderboards, message_id, Temp(message_id))
                /\ views' = Put(views, Temp(message_id),
                                [temp_view EXCEPT !.current_page = page])
       ELSE LET v == active_leaderboards[message_id]
                page == IF custom_id = "prev" THEN prev_page(views[v])
                        ELSE next_page(views[v])
            IN  /\ views' = [views EXCEPT ![v].current_page = page]
                /\ UNCHANGED active_leaderboards
    /\ last' = Call("handle_leaderboard_buttons", message_id, 0, custom_id,
                    generate_embed(views'[active_leaderboards'[message_id]]),
                    NoBefore, NoPrior)
    /\ UNCHANGED <<program, memes, order, file, writable, contrib>>
    /\ UNCHANGED <<tasks, twin, reactions, bot_active_leaderboards>>

\* The timeout of a view runs out: discord.py finishes the view and calls
\* on_timeout. LeaderboardView.on_timeout deletes its message_id from the
\* module's active_leaderboards; MemeLeaderboardView has no on_timeout.
on_timeout(v) ==
    /\ v \in DOMAIN views
    /\ ~views[v].finished
    /\ views' = [views EXCEPT ![v].finished = TRUE]
    /\ active_leaderboards' =
           IF program = "bot_new" /\ views[v].message_id \in DOMAIN active_leaderboards
           THEN Del(active_leaderboards, views[v].message_id)
           ELSE active_leaderboards
    /\ last' = Call("on_timeout", views[v].message_id, 0, v[1], None, NoBefore, NoPrior)
    /\ UNCHANGED <<program, memes, order, file, writable, contrib>>
    /\ UNCHANGED <<tasks, twin, reactions, bot_active_leaderboards>>

\* bot.py show_leaderboard without an action: MemeLeaderboardView.start sends
\* the view with the message
show_leaderboard_view(message_id) ==
    /\ \A v \in DOMAIN views : views[v].message_id # message_id
    /\ get_top_memes(BotPageLimit)
    /\ IF last'.ret = <<>>
       THEN UNCHANGED views
       ELSE views' = Put(views, Sent(message_id), LeaderboardView(last'.ret, message_id))
    /\ UNCHANGED <<tasks, twin, reactions, active_leaderboards, bot_active_leaderboards>>

\* bot.py prev_callback / next_callback, which discord.py calls for a press
\* on a view that has not finished
button_callback(message_id, custom_id) ==
    /\ program = "bot"
    /\ Sent(message_id) \in DOMAIN views
    /\ ~views[Sent(message_id)].finished
    /\ LET v == Sent(message_id)
           page == IF custom_id = "prev" THEN prev_page(views[v]) ELSE next_page(views[v])
       IN  /\ views' = [views EXCEPT ![v].current_page = page]
           /\ last' = Call(custom_id \o "_callback", message_id, 0, custom_id,
                           generate_embed(views'[v]), NoBefore, NoPrior)
    /\ UNCHANGED <<program, memes, order, file, writable, contrib>>
    /\ UNCHANGED <<tasks, twin, reactions, active_leaderboards, bot_active_leaderboards>>

NextViews ==
    \/ \E i \in Items, a \in Authors, e \in Embeds, t \in Nows : meme_posted(i, a, e, t)
    \/ \E m \in ViewMessages : _leaderboard(m)
    \/ \E m \in ViewMessages, c \in CustomIds : DiscordBot_handle_leaderboard_buttons(m, c)
    \/ \E m \in ViewMessages, c \in CustomIds : handle_leaderboard_buttons(m, c)
    \/ \E v \in DOMAIN views : on_timeout(v)
    \/ \E m \in ViewMessages : show_leaderboard_view(m)
    \/ \E m \in ViewMessages, c \in CustomIds : button_callback(m, c)

SpecViews == InitViews /\ [][NextViews]_vars

\* ---- the two stores fed the same calls ------------------------------------
\* memes is the store of tools/leaderboard.py; twin holds the memes of a
\* meme_leaderboard.py store that is given every call the first one gets.
InitTwin == Init /\ program = "bot_new" /\ writable

\* add_meme on the one, track_meme (lines 43-92) on the other
add_meme_and_track_meme(message_id, author, embed_data, now) ==
    /\ add_meme(message_id, author, embed_data, now)
    /\ twin' = Put(twin, message_id, NewMeme(message_id, author, embed_data, now))
    /\ UNCHANGED <<tasks, reactions, viewvars>>

\* update_vote on the one; on the other _add_vote behind the lookup of
\* process_reaction (lines 112-114)
update_vote_and_add_vote(message_id, user_id, is_upvote) ==
    /\ update_vote(message_id, user_id, is_upvote)
    /\ twin' = IF message_id \in DOMAIN twin
               THEN [twin EXCEPT ![message_id] =
                        _add_vote(@, user_id, IF is_upvote THEN 1 ELSE -1)]
               ELSE twin
    /\ UNCHANGED <<tasks, reactions, viewvars>>

\* remove_vote on the one; on the other _remove_vote behind the same lookup
remove_vote_and_remove_vote(message_id, user_id) ==
    /\ remove_vote(message_id, user_id)
    /\ twin' = IF message_id \in DOMAIN twin
               THEN [twin EXCEPT ![message_id] = _remove_vote(@, user_id)]
               ELSE twin
    /\ UNCHANGED <<tasks, reactions, viewvars>>

NextTwin ==
    \/ \E i \in Items, a \in Authors, e \in Embeds, t \in Nows :
           add_meme_and_track_meme(i, a, e, t)
    \/ \E i \in Items, u \in Voters, b \in BOOLEAN : update_vote_and_add_vote(i, u, b)
    \/ \E i \in Items, u \in Voters : remove_vote_and_remove_vote(i, u)

SpecTwin == InitTwin /\ [][NextTwin]_vars

\* ---- properties -----------------------------------------------------------
Upvoters(meme) == {u \in DOMAIN meme.voters : meme.voters[u] = 1}

Downvoters(meme) == {u \in DOMAIN meme.voters : meme.voters[u] = -1}

KindOf(p) == IF p = 1 THEN "up" ELSE "down"

SamePair(c, d) == c.message_id = d.message_id /\ c.user_id = d.user_id

\* last is a vote call on a tracked meme
OnKnown(c) == Kind(c) # "other" /\ c.before.known

\* C1: from an empty store, after any sequence of registrations, votes, removals
\* and resets, every item's upvotes is the number of voters recorded +1 and its
\* downvotes the number recorded -1, in both programs.
C1_NoDrift ==
    \A i \in DOMAIN memes :
        /\ memes[i].upvotes = Cardinality(Upvoters(memes[i]))
        /\ memes[i].downvotes = Cardinality(Downvoters(memes[i]))

\* A removal took a vote away while another item holds an upvote and a downvote.
C1_Witness ==
    /\ Kind(last) = "remove"
    /\ last.before.known
    /\ last.before.vote # 0
    /\ \E i \in DOMAIN memes : memes[i].upvotes = 1 /\ memes[i].downvotes = 1

\* C2: whatever vote and removal calls a voter makes on an item, the voter adds
\* 0 or 1 to the item's upvotes + downvotes, never more.
C2_AtMostOneActiveVote ==
    \A i \in Items, u \in Voters : contrib[i][u] \in {0, 1}

\* A voter who already had a vote voted again and still counts once.
C2_Witness ==
    /\ OnKnown(last)
    /\ Kind(last) \in {"up", "down"}
    /\ last.before.vote # 0
    /\ contrib[last.message_id][last.user_id] = 1

\* C3: from any loaded store, no vote or removal leaves a counter below zero.
C3_CountsNeverNegative ==
    \A i \in DOMAIN memes : memes[i].upvotes >= 0 /\ memes[i].downvotes >= 0

\* C4: a vote of one polarity followed by the same voter's vote of the other
\* polarity, on a tracked meme where the voter had no vote, leaves the first
\* polarity's counter as it was before the first call, the other counter one
\* higher, and the voter recorded with the second polarity.
C4_SwitchIsNetTransfer ==
    \A p \in {1, -1} :
        ( /\ OnKnown(last)
          /\ Kind(last) = KindOf(-p)
          /\ last.prior.kind = KindOf(p)
          /\ last.prior.before.known
          /\ last.prior.before.vote = 0 )
        => LET meme == memes[last.message_id]
               was == last.prior.before
           IN  /\ last.message_id \in DOMAIN memes
               /\ meme.upvotes = was.upvotes + (IF p = 1 THEN 0 ELSE 1)
               /\ meme.downvotes = was.downvotes + (IF p = 1 THEN 1 ELSE 0)
               /\ last.user_id \in DOMAIN meme.voters
               /\ meme.voters[last.user_id] = -p

\* An upvote by a voter without a vote was followed by the voter's downvote.
C4_Witness ==
    /\ OnKnown(last)
    /\ Kind(last) = "down"
    /\ last.prior.kind = "up"
    /\ last.prior.before.known
    /\ last.prior.before.vote = 0
    /\ last.prior.before.upvotes = 1

\* C5: a vote of the polarity the voter already has on the item leaves the
\* item's upvotes, downvotes and voters as they were.
C5_RepeatVoteIsNoop ==
    [][ ( /\ OnKnown(last')
          /\ Kind(last') \in {"up", "down"}
          /\ Kind(last') = KindOf(last'.before.vote)
          /\ last'.before.vote # 0 )
        => /\ last'.message_id \in DOMAIN memes'
           /\ memes'[last'.message_id].upvotes = memes[last'.message_id].upvotes
           /\ memes'[last'.message_id].downvotes = memes[last'.message_id].downvotes
           /\ memes'[last'.message_id].voters = memes[last'.message_id].voters ]_vars

\* A voter with an upvote upvoted again, next to another voter's downvote.
C5_Witness ==
    /\ OnKnown(last)
    /\ Kind(last) = "up"
    /\ last.before.vote = 1
    /\ memes[last.message_id].downvotes = 1

\* C6: a removal that directly follows a removal for the same (item, voter)
\* finds no vote and changes nothing; remove_vote then returns false.
C6_SecondRemoveIsNoop ==
    [][ ( /\ Kind(last) = "remove"
          /\ Kind(last') = "remove"
          /\ SamePair(last, last') )
        => /\ memes' = memes
           /\ order' = order
           /\ last'.before.vote = 0
           /\ (last'.op = "remove_vote" => last'.ret = PyFalse) ]_vars

\* A removal that took a vote away was followed by a second removal.
C6_Witness ==
    /\ OnKnown(last)
    /\ Kind(last) = "remove"
    /\ last.prior.kind = "remove"
    /\ last.prior.before.vote # 0

\* C7: registering an identifier that is already present returns false and
\* leaves the store as it was, on both registration paths.
C7_DuplicateAddFails ==
    [][ ( /\ last'.op \in {"add_meme", "track_meme"}
          /\ last'.message_id \in DOMAIN memes )
        => /\ memes' = memes
           /\ order' = order
           /\ last'.ret = PyFalse ]_vars

\* C8: registering a new identifier inserts one item under it with zero
\* counts and no voters, leaves every other item as it was, and saves: the
\* backing file then holds the store, unless the file cannot be written.
C8_AddInsertsZeroItem ==
    [][ ( /\ last'.op \in {"add_meme", "track_meme"}
          /\ last'.message_id \notin DOMAIN memes )
        => /\ DOMAIN memes' = DOMAIN memes \cup {last'.message_id}
           /\ memes'[last'.message_id].message_id = last'.message_id
           /\ memes'[last'.message_id].upvotes = 0
           /\ memes'[last'.message_id].downvotes = 0
           /\ memes'[last'.message_id].voters = EmptyDict
           /\ \A j \in DOMAIN memes : memes'[j] = memes[j]
           /\ file' = (IF writable THEN Dumped(memes', order') ELSE file) ]_vars

\* A second item was registered next to one that holds a vote.
C8_Witness ==
    /\ last.op \in {"add_meme", "track_meme"}
    /\ Cardinality(DOMAIN memes) = 2
    /\ memes[last.message_id].upvotes = 0
    /\ memes[last.message_id].voters = EmptyDict
    /\ \E j \in DOMAIN memes : j # last.message_id /\ memes[j].downvotes = 1
    /\ writable
    /\ file = Dumped(memes, order)

\* C9: a vote or a removal for an identifier that is not in the store changes
\* nothing: no item appears and no item changes.
C9_UnknownItemIgnored ==
    [][ ( /\ last'.op \in {"update_vote", "remove_vote", "process_reaction"}
          /\ last'.message_id \notin DOMAIN memes )
        => /\ memes' = memes
           /\ order' = order
           /\ (last'.op \in {"update_vote", "remove_vote"} => last'.ret = PyFalse) ]_vars

\* A vote arrived for an untracked message while another meme holds a vote.
C9_Witness ==
    /\ last.op \in {"update_vote", "process_reaction"}
    /\ Kind(last) \in {"up", "down"}
    /\ ~last.before.known
    /\ last.message_id \notin DOMAIN memes
    /\ \E j \in DOMAIN memes : memes[j].upvotes = 1

Position(i) == CHOOSE k \in 1..Len(order) : order[k] = i

Net(i) == memes[i].upvotes - memes[i].downvotes

\* net score descending, then upvotes descending, then insertion order
RanksByPopularity(a, b) ==
    \/ Net(a) > Net(b)
    \/ Net(a) = Net(b) /\ memes[a].upvotes > memes[b].upvotes
    \/ Net(a) = Net(b) /\ memes[a].upvotes = memes[b].upvotes /\ Position(a) < Position(b)

\* upvotes descending, then insertion order
RanksByUpvotes(a, b) ==
    \/ memes[a].upvotes > memes[b].upvotes
    \/ memes[a].upvotes = memes[b].upvotes /\ Position(a) < Position(b)

\* r is the first min(n, number of items) items under the ranking
IsTop(r, n, Ranks(_, _)) ==
    /\ Len(r) = Min(n, Cardinality(DOMAIN memes))
    /\ \A k \in 1..Len(r) : r[k] \in DOMAIN memes
    /\ \A j, k \in 1..Len(r) : j < k => Ranks(r[j], r[k])
    /\ \A k \in 1..Len(r) : \A i \in DOMAIN memes \ Range(r) : Ranks(r[k], i)

\* C10 as stated: the default call of either get_top_memes returns the first
\* min(n, number of items) items by net score, then upvotes, then insertion order.
C10_TopByPopularityInBoth ==
    (last.op = "get_top_memes" /\ last.arg.sort_by \in {"upvotes", "popularity"})
    => IsTop(last.ret, last.arg.limit, RanksByPopularity)

\* C10: meme_leaderboard.get_top_memes returns the first min(n, number of items)
\* items by net score descending, then upvotes descending, then insertion order;
\* the default call of tools/leaderboard.get_top_memes returns them by upvotes
\* descending, then insertion order.
C10_TopPerProgram ==
    /\ (last.op = "get_top_memes" /\ last.arg.sort_by = "popularity")
       => IsTop(last.ret, last.arg.limit, RanksByPopularity)
    /\ (last.op = "get_top_memes" /\ last.arg.sort_by = "upvotes")
       => IsTop(last.ret, last.arg.limit, RanksByUpvotes)

\* Two memes of equal net score were returned, the later-inserted first
\* because it has more upvotes.
C10_Witness ==
    /\ last.op = "get_top_memes"
    /\ last.arg.sort_by = "popularity"
    /\ Len(last.ret) = 2
    /\ Net(last.ret[1]) = Net(last.ret[2])
    /\ memes[last.ret[1]].upvotes > memes[last.ret[2]].upvotes
    /\ Position(last.ret[1]) > Position(last.ret[2])

\* ---- reset and author statistics ----------------------------------------
\* All-zero statistics with no best meme, in the layout of either program.
ZeroStats(ret) ==
    IF program = "bot"
    THEN /\ ret.memes_created = 0
         /\ ret.total_upvotes = 0
         /\ ret.total_downvotes = 0
         /\ ret.net_popularity = 0
         /\ ret.most_popular_meme = <<>>
    ELSE /\ ret.total_memes = 0
         /\ ret.total_upvotes = 0
         /\ ret.total_downvotes = 0
         /\ ret.net_score = 0
         /\ ret.top_memes = <<>>

\* C11: reset_all_data leaves no meme and no ledger in memory and, when the
\* write succeeds, the empty store in the file; a get_top_memes that directly
\* follows it returns the empty list and a get_user_stats that directly
\* follows it returns all-zero statistics, whoever the author.
C11_ResetClearsEverything ==
    [][/\ last'.op = "reset_all_data" =>
            /\ memes' = EmptyDict
            /\ order' = <<>>
            /\ writable => file' = Dumped(EmptyDict, <<>>)
       /\ (last.op = "reset_all_data" /\ last'.op = "get_top_memes") =>
            last'.ret = <<>>
       /\ (last.op = "reset_all_data" /\ last'.op = "get_user_stats") =>
            ZeroStats(last'.ret)]_vars

\* A store holding voted memes was reset and an author asked for statistics.
C11_Witness ==
    /\ last.op = "get_user_stats"
    /\ last.prior.kind = "reset"
    /\ last.prior.before.known
    /\ last.prior.before.upvotes > 0
    /\ last.prior.before.downvotes > 0
    /\ ZeroStats(last.ret)
    /\ writable
    /\ file = Dumped(EmptyDict, <<>>)

\* The memes whose author_id is the author.
MemesOf(author) == {i \in DOMAIN memes : memes[i].author_id = author}

RECURSIVE SumOver(_, _)
SumOver(S, f) ==
    IF S = {} THEN 0
    ELSE LET x == CHOOSE y \in S : TRUE IN f[x] + SumOver(S \ {x}, f)

\* The statistics a get_user_stats returned, read from either layout; the
\* best meme of tools/leaderboard.py is top_memes[0], the one process_command
\* shows.
StatsCount(ret) == IF program = "bot" THEN ret.memes_created ELSE ret.total_memes

StatsNet(ret) == IF program = "bot" THEN ret.net_popularity ELSE ret.net_score

StatsBest(ret) == IF program = "bot" THEN ret.most_popular_meme ELSE Slice(ret.top_memes, 1)

\* count, summed upvotes, summed downvotes and net over exactly MemesOf(author)
StatsSums(ret, author) ==
    /\ StatsCount(ret) = Cardinality(MemesOf(author))
    /\ ret.total_upvotes = SumOver(MemesOf(author), [i \in DOMAIN memes |-> memes[i].upvotes])
    /\ ret.total_downvotes =
           SumOver(MemesOf(author), [i \in DOMAIN memes |-> memes[i].downvotes])
    /\ StatsNet(ret) = ret.total_upvotes - ret.total_downvotes

\* C12 as stated: get_user_stats of either program returns the count, the
\* summed upvotes, the summed downvotes and their difference over exactly the
\* author's memes, and as best meme one of them that none of them exceeds in
\* (net score, upvotes).
C12_BestByPopularityInBoth ==
    last.op = "get_user_stats" =>
        /\ StatsSums(last.ret, last.user_id)
        /\ MemesOf(last.user_id) # {} =>
               /\ Len(StatsBest(last.ret)) = 1
               /\ StatsBest(last.ret)[1] \in MemesOf(last.user_id)
               /\ \A j \in MemesOf(last.user_id) :
                      ~TupleLess(popularity_key(memes[StatsBest(last.ret)[1]]),
                                 popularity_key(memes[j]))

\* C12: get_user_stats of either program returns the count, the summed
\* upvotes, the summed downvotes and their difference over exactly the
\* author's memes; meme_leaderboard.py returns as most_popular_meme the
\* author's meme that ranks first by net score, then upvotes, then insertion
\* order; tools/leaderboard.py returns as top_memes the author's memes (three
\* at most) by upvotes descending, then insertion order.
C12_StatsPerProgram ==
    last.op = "get_user_stats" =>
        LET mine == MemesOf(last.user_id)
        IN  /\ StatsSums(last.ret, last.user_id)
            /\ (program = "bot" /\ mine # {}) =>
                   /\ Len(last.ret.most_popular_meme) = 1
                   /\ last.ret.most_popular_meme[1] \in mine
                   /\ \A j \in mine \ {last.ret.most_popular_meme[1]} :
                          RanksByPopularity(last.ret.most_popular_meme[1], j)
            /\ program = "bot_new" =>
                   LET r == last.ret.top_memes
                   IN  /\ Len(r) = Min(3, Cardinality(mine))
                       /\ \A k \in 1..Len(r) : r[k] \in mine
                       /\ \A j, k \in 1..Len(r) : j < k => RanksByUpvotes(r[j], r[k])
                       /\ \A k \in 1..Len(r) : \A i \in mine \ Range(r) :
                              RanksByUpvotes(r[k], i)

\* An author of two voted memes asked for statistics; the memes tie on net
\* score and the later-inserted one is the best because it has more upvotes.
C12_Witness ==
    /\ last.op = "get_user_stats"
    /\ program = "bot"
    /\ Cardinality(MemesOf(last.user_id)) = 2
    /\ Net(order[1]) = Net(order[2])
    /\ memes[order[2]].upvotes > memes[order[1]].upvotes
    /\ last.ret.total_upvotes = memes[order[1]].upvotes + memes[order[2]].upvotes
    /\ last.ret.total_downvotes > 0
    /\ last.ret.most_popular_meme = <<order[2]>>

\* C13: in every reachable state of either program, get_user_stats of an
\* author none of whose memes is in the store returns a count of zero, zero
\* upvotes, zero downvotes, zero net and no best meme.
C13_NoMemesNoStats ==
    (last.op = "get_user_stats" /\ MemesOf(last.user_id) = {}) => ZeroStats(last.ret)

\* The store holds voted memes of another author only.
C13_Witness ==
    /\ last.op = "get_user_stats"
    /\ MemesOf(last.user_id) = {}
    /\ \E i \in DOMAIN memes : memes[i].upvotes > 0
    /\ \E i \in DOMAIN memes : memes[i].downvotes > 0
    /\ ZeroStats(last.ret)

\* ---- persistence -------------------------------------------------------
\* C14: in every reachable state of either program, a save that succeeds
\* followed by the load of a fresh store on the same file gives a store with
\* the same message ids and, for each, the same upvotes, downvotes and
\* voters.
C14_SaveLoadRoundTrip ==
    [][(last'.op = "save_then_load" /\ writable) =>
           /\ DOMAIN memes' = DOMAIN memes
           /\ \A i \in DOMAIN memes :
                  /\ memes'[i].upvotes = memes[i].upvotes
                  /\ memes'[i].downvotes = memes[i].downvotes
                  /\ memes'[i].voters = memes[i].voters]_vars

\* A store of two memes, one voted up and one voted down, came back from
\* the file it had just been saved to.
C14_Witness ==
    /\ last.op = "save_then_load"
    /\ writable
    /\ last.arg.state = "json"
    /\ Len(last.arg.memes) = 2
    /\ Cardinality(DOMAIN memes) = 2
    /\ \E i \in DOMAIN memes : memes[i].voters # EmptyDict /\ memes[i].upvotes > 0
    /\ \E i \in DOMAIN memes : memes[i].voters # EmptyDict /\ memes[i].downvotes > 0

\* C15 as stated: a store constructed on a file that is missing or cannot
\* be parsed starts empty and, the write succeeding, leaves the empty store
\* in the file, in both cases and in both programs.
C15_LoadPersistsEmptyStore ==
    (last.op = "init" /\ last.arg.state \in {"missing", "corrupt"}) =>
        /\ memes = EmptyDict
        /\ order = <<>>
        /\ writable => file = Dumped(EmptyDict, <<>>)

\* What an "up", "down" or "remove" leaves as the voter's vote.
Target(kind) == IF kind = "up" THEN 1 ELSE IF kind = "down" THEN -1 ELSE 0

\* C16: when the write to the file fails, add_meme / track_meme, a vote, a
\* vote removal and reset_all_data still return normally with the change
\* made in memory, and the file is left as it was.
C16_FailedSaveKeepsMutation ==
    [][~writable =>
        /\ last'.op \in {"add_meme", "track_meme", "update_vote", "remove_vote",
                         "process_reaction", "reset_all_data"} => file' = file
        /\ (last'.op = "add_meme" /\ last'.message_id \notin DOMAIN memes) =>
               /\ last'.ret = PyTrue
               /\ DOMAIN memes' = DOMAIN memes \cup {last'.message_id}
        /\ last'.op = "track_meme" =>
               /\ last'.ret = None
               /\ DOMAIN memes' = DOMAIN memes \cup {last'.message_id}
               /\ memes'[last'.message_id].voters = EmptyDict
        /\ OnKnown(last') =>
               /\ last'.ret = (IF program = "bot" THEN None
                               ELSE IF Kind(last') = "remove" /\ last'.before.vote = 0
                               THEN PyFalse ELSE PyTrue)
               /\ Get(memes'[last'.message_id].voters, last'.user_id, 0)
                      = Target(Kind(last'))
        /\ last'.op = "reset_all_data" =>
               /\ last'.ret = "reset"
               /\ memes' = EmptyDict]_vars

\* On a disk that cannot be written, a registered meme took an upvote: the
\* call returned True, the vote is in memory and there is still no file.
C16_Witness ==
    /\ ~writable
    /\ last.op = "update_vote"
    /\ last.ret = PyTrue
    /\ last.before.known
    /\ last.before.vote = -1
    /\ memes[last.message_id].voters[last.user_id] = 1
    /\ memes[last.message_id].upvotes = last.before.upvotes + 1
    /\ file = MissingFile

\* The memes a file holds: those of its dump, none when there is no dump.
PersistedItems(f) == IF f.state = "json" THEN json_load(f)[1] ELSE EmptyDict

\* C17: writes succeeding, after any sequence of registrations, votes, vote
\* removals and resets the memes in the backing file are the memes in memory,
\* in every state between two calls.
C17_FileFollowsMemory ==
    writable => PersistedItems(file) = memes

\* A vote was taken back from one of two registered memes while another
\* voter's vote stays, and the file holds exactly that.
C17_Witness ==
    /\ writable
    /\ file.state = "json"
    /\ Kind(last) = "remove"
    /\ last.before.vote # 0
    /\ Cardinality(DOMAIN memes) = 2
    /\ last.user_id \notin DOMAIN memes[last.message_id].voters
    /\ \E u \in Voters : u \in DOMAIN memes[last.message_id].voters
    /\ PersistedItems(file) = memes

\* ---- the vote state machine ---------------------------------------------
\* The call by which user_id, whose vote on message_id is now v, asks the
\* running program for the state t (1 up, -1 down, 0 none).
VoteCall(message_id, user_id, v, t) ==
    IF program = "bot_new"
    THEN IF t = 0 THEN remove_vote(message_id, user_id)
         ELSE update_vote(message_id, user_id, t = 1)
    ELSE IF t = 0
         THEN process_reaction(message_id, user_id,
                               IF v = 1 THEN "thumbs_up" ELSE "thumbs_down", FALSE)
         ELSE process_reaction(message_id, user_id,
                               IF t = 1 THEN "thumbs_up" ELSE "thumbs_down", TRUE)

\* From the vote of every voter on every known meme, the step to each of the
\* two other states can be taken.
SixTransitionsEnabled ==
    \A i \in DOMAIN memes, u \in Voters :
        LET v == Get(memes[i].voters, u, 0)
        IN  \A t \in {1, -1, 0} \ {v} :
                ENABLED (/\ VoteCall(i, u, v, t)
                         /\ UNCHANGED <<tasks, twin, reactions, viewvars>>
                         /\ Get(memes'[i].voters, u, 0) = t)

\* What a vote call on a known meme must leave of (upvotes, downvotes, vote).
VoteStepExact ==
    OnKnown(last') =>
        LET i == last'.message_id
            u == last'.user_id
            v == Get(memes[i].voters, u, 0)
            t == Target(Kind(last'))
        IN  /\ Get(memes'[i].voters, u, 0) = t
            /\ memes'[i].upvotes = memes[i].upvotes - (IF v = 1 THEN 1 ELSE 0)
                                                   + (IF t = 1 THEN 1 ELSE 0)
            /\ memes'[i].downvotes = memes[i].downvotes - (IF v = -1 THEN 1 ELSE 0)
                                                       + (IF t = -1 THEN 1 ELSE 0)

\* C18: a voter's vote on a known meme is none, up or down; each of the six
\* transitions between these states can be taken; and every up-vote call
\* ends in up, every down-vote call in down and every removal in none, with
\* upvotes and downvotes moved by exactly the vote that left and the vote
\* that came.
C18_TriStateVote ==
    []SixTransitionsEnabled /\ [][VoteStepExact]_vars

\* A voter went from down to up on a meme that another voter has upvoted.
C18_Witness ==
    /\ OnKnown(last)
    /\ Kind(last) = "up"
    /\ last.before.vote = -1
    /\ last.before.upvotes = 1
    /\ last.before.downvotes = 1
    /\ memes[last.message_id].voters[last.user_id] = 1
    /\ memes[last.message_id].upvotes = 2
    /\ memes[last.message_id].downvotes = 0

C19_HandlersAtomic ==
    /\ \A t \in tasks : t.pc \in {"start", "send", "sent", "react"}
    /\ \A i \in DOMAIN memes :
           /\ memes[i].upvotes = Cardinality(Upvoters(memes[i]))
           /\ memes[i].downvotes = Cardinality(Downvoters(memes[i]))

\* While the handler that registered a meme is still waiting for its
\* add_reaction calls, a voter's vote on that meme was switched and one more
\* event of the same voter on the meme waits for its handler.
C19_Witness ==
    /\ OnKnown(last)
    /\ last.before.vote # 0
    /\ Kind(last) = KindOf(-last.before.vote)
    /\ \E t \in tasks :
           /\ t.handler = "run"
           /\ t.pc = "react"
           /\ t.message_id = last.message_id
    /\ \E t \in tasks :
           /\ t.handler \in {"on_reaction_add", "on_reaction_remove"}
           /\ t.message_id = last.message_id
           /\ t.user_id = last.user_id
           /\ t.emoji # "other"

\* ---- the lifetime of a meme ----------------------------------------------
\* C21 as stated: a call that is not the reset (nor a restart) deletes no
\* meme and leaves every meme its author_id, author_name, embed_data and
\* created_at.
C21_MemesKeptUntilReset ==
    [][last'.op \notin {"reset_all_data", "save_then_load"} =>
          /\ DOMAIN memes \subseteq DOMAIN memes'
          /\ \A i \in DOMAIN memes :
                 /\ memes'[i].author_id = memes[i].author_id
                 /\ memes'[i].author_name = memes[i].author_name
                 /\ memes'[i].embed_data = memes[i].embed_data
                 /\ memes'[i].created_at = memes[i].created_at]_vars

\* ---- the reset command ---------------------------------------------------
\* The handler steps of the leaderboard command that end in this step.
Commands(action) ==
    {t \in tasks \ tasks' : t.handler = "show_leaderboard" /\ t.action = action}

\* C22: a leaderboard reset command of a user without administrator
\* permission leaves memes and file unchanged, one of an administrator
\* empties the store, and a non-empty store is emptied only by the reset
\* command of an administrator.
C22_ResetOnlyForAdministrator ==
    [][/\ \A t \in Commands("reset") :
              IF t.user_id \in Administrators
              THEN memes' = EmptyDict /\ order' = <<>>
              ELSE UNCHANGED <<memes, order, file>>
       /\ (memes # EmptyDict /\ memes' = EmptyDict) =>
              \E t \in Commands("reset") : t.user_id \in Administrators]_vars

\* A user who is no administrator asked for a reset of a store that holds
\* a voted meme, was refused, and the meme and its votes are still there.
C22_Witness ==
    /\ last.op = "show_leaderboard"
    /\ last.arg = "reset"
    /\ last.ret = "denied"
    /\ last.user_id \notin Administrators
    /\ last.before.known
    /\ last.before.upvotes > 0
    /\ \E i \in DOMAIN memes : memes[i].upvotes = last.before.upvotes
                                /\ memes[i].voters # EmptyDict

\* ---- frame conditions ----------------------------------------------------
\* C23: in every reachable state of either program, get_top_memes and
\* get_user_stats leave the memes, all their fields, their order and the
\* backing file as they were.
C23_QueriesReadOnly ==
    [][last'.op \in {"get_top_memes", "get_user_stats"} =>
          UNCHANGED <<memes, order, file>>]_vars

\* Two voted memes were ranked, the later-inserted one first, and store
\* and file still hold them in insertion order.
C23_Witness ==
    /\ last.op = "get_top_memes"
    /\ Len(last.ret) = 2
    /\ last.ret[1] = order[2]
    /\ last.ret[2] = order[1]
    /\ memes[order[1]].voters # EmptyDict
    /\ writable
    /\ file = Dumped(memes, order)

\* The calls that deliver a vote or a vote removal.
VoteOps == {"update_vote", "remove_vote", "process_reaction"}

\* Everything of meme a except upvotes, downvotes and user_id's entry is as
\* in meme b.
SameButVote(a, b, user_id) ==
    /\ a.message_id = b.message_id
    /\ a.author_id = b.author_id
    /\ a.author_name = b.author_name
    /\ a.embed_data = b.embed_data
    /\ a.created_at = b.created_at
    /\ DOMAIN a.voters \ {user_id} = DOMAIN b.voters \ {user_id}
    /\ \A w \in DOMAIN a.voters \ {user_id} : a.voters[w] = b.voters[w]

\* C24: a vote or a vote removal of voter u on meme i changes nothing but
\* upvotes and downvotes of i and the entry of u in the voters of i: the
\* set and order of memes, every other meme, every other voter's entry on i
\* and author_id, author_name, embed_data and created_at of i stay.
C24_VoteFrame ==
    [][last'.op \in VoteOps =>
          /\ DOMAIN memes' = DOMAIN memes
          /\ order' = order
          /\ \A j \in DOMAIN memes :
                 IF j = last'.message_id
                 THEN SameButVote(memes'[j], memes[j], last'.user_id)
                 ELSE memes'[j] = memes[j]]_vars

\* A voter switched from up to down on a meme that the other voter has
\* upvoted, while the other meme holds a vote too.
C24_Witness ==
    /\ OnKnown(last)
    /\ Kind(last) = "down"
    /\ last.before.vote = 1
    /\ \E w \in Voters \ {last.user_id} :
           Get(memes[last.message_id].voters, w, 0) = 1
    /\ \E j \in DOMAIN memes \ {last.message_id} : memes[j].voters # EmptyDict

\* ---- the two ledgers compared ---------------------------------------------
\* C25: from empty stores, after any sequence of adds, votes and vote
\* removals given to both, the store of tools/leaderboard.py and the store of
\* meme_leaderboard.py hold the same memes with the same upvotes, downvotes
\* and voters.
C25_LedgersAgree ==
    /\ DOMAIN twin = DOMAIN memes
    /\ \A i \in DOMAIN memes :
           /\ twin[i].upvotes = memes[i].upvotes
           /\ twin[i].downvotes = memes[i].downvotes
           /\ twin[i].voters = memes[i].voters

\* ---- ledger and reactions --------------------------------------------------
\* The vote that the thumbs a user holds on a message stand for, when they
\* hold at most one.
VoteOf(held) ==
    IF held = {"thumbs_up"} THEN 1 ELSE IF held = {"thumbs_down"} THEN -1 ELSE 0

\* C26: after any sequence of thumbs added and removed by a user on a tracked
\* meme, the user's entry in voters is up when only the thumbs-up is left,
\* down when only the thumbs-down is left and absent when none is left, in
\* both programs.
C26_LedgerFollowsReactions ==
    \A i \in DOMAIN memes, u \in Voters :
        Cardinality(reactions[i][u]) <= 1 =>
            Get(memes[i].voters, u, 0) = VoteOf(reactions[i][u])

\* ---- events that are no votes ----------------------------------------------
\* The reaction handlers that end in this step.
ReactionsHandled ==
    {t \in tasks \ tasks' : t.handler \in {"on_reaction_add", "on_reaction_remove"}}

\* C27: a reaction event of a bot user (the bot's own thumbs on its memes
\* among them) and a reaction event with an emoji other than the two thumbs
\* leave upvotes, downvotes and voters of every meme as they were, in both
\* programs, whatever else is in flight.
C27_NonVotesIgnored ==
    [][\A t \in ReactionsHandled :
          (t.user_id = BotUser \/ t.emoji = "other") =>
              /\ DOMAIN memes' = DOMAIN memes
              /\ \A i \in DOMAIN memes :
                     /\ memes'[i].upvotes = memes[i].upvotes
                     /\ memes'[i].downvotes = memes[i].downvotes
                     /\ memes'[i].voters = memes[i].voters]_vars

\* A user who has upvoted a tracked meme reacted to it with another emoji,
\* and the upvote stands.
C27_Witness ==
    /\ last.op = "process_reaction"
    /\ last.user_id \in Voters
    /\ last.arg.emoji = "other"
    /\ last.before.known
    /\ last.before.vote = 1
    /\ memes[last.message_id].voters[last.user_id] = 1
    /\ memes[last.message_id].upvotes = 1

\* ---- reactions during the posting of a meme ------------------------------
\* No reaction-added handler for the pair is still to run.
Handled(message_id, user_id) ==
    \A t \in tasks :
        ~(/\ t.handler = "on_reaction_add"
          /\ t.message_id = message_id
          /\ t.user_id = user_id)

\* C28: a thumb that a user put on a meme message is counted once the meme
\* is registered and the user's reaction events are handled, also when the
\* thumb came between the posting of the message and its registration.
C28_ReactionCounted ==
    \A i \in DOMAIN memes, u \in Voters :
        (Handled(i, u) /\ Cardinality(reactions[i][u]) = 1) =>
            Get(memes[i].voters, u, 0) = VoteOf(reactions[i][u])

\* ---- pages -----------------------------------------------------------------
\* C29: whatever prev and next presses a view over a non-empty meme list has
\* had, the first press on a message that was not tracked among them, its
\* current_page is at least 0 and at most total_pages - 1.
C29_PageInRange ==
    \A v \in DOMAIN views :
        views[v].memes # <<>> =>
            /\ 0 <= views[v].current_page
            /\ views[v].current_page <= views[v].total_pages - 1

\* A view sent for message_id has timed out.
TimedOut(message_id) ==
    Sent(message_id) \in DOMAIN views /\ views[Sent(message_id)].finished

\* C30: a prev or next press on a message whose leaderboard view has timed
\* out is answered with the session-expired reply and changes no page.
C30_ExpiredAfterTimeout ==
    [][(last'.op = "DiscordBot.handle_leaderboard_buttons"
            /\ TimedOut(last'.message_id)) =>
          (last'.ret = "expired" /\ views' = views)]_vars

====
